---------------------------- MODULE Spec2Model ----------------------------
(***************************************************************************)
(* Model of the two catalog services of the repository:                    *)
(*   src/05.04.2025/catalog.py  (minerals, table "minerals")               *)
(*   src/06.04.2025/Game.py     (games, table "games")                     *)
(* Each is a FastAPI application over its own SQLite database.  Requests   *)
(* are served by worker threads, one SQLAlchemy session per request.       *)
(*                                                                         *)
(* Text is modelled as a sequence of one-character strings, so that        *)
(* trimming, substring search, LIKE patterns, regular expressions and      *)
(* collation are computed and not assumed.                                 *)
(***************************************************************************)
EXTENDS Integers, Sequences, FiniteSets, TLC

\* ------------------------------------------------------------------ text

\* The characters of the model in ASCII order (SQLite's BINARY collation
\* compares text byte by byte).
Ascii ==
  << " ", "%", "-", ".",
     "0", "1", "2", "3", "4", "5", "6", "7", "8", "9",
     "A", "B", "C", "D", "E", "F", "G", "H", "I", "J", "K", "L", "M",
     "N", "O", "P", "Q", "R", "S", "T", "U", "V", "W", "X", "Y", "Z",
     "_",
     "a", "b", "c", "d", "e", "f", "g", "h", "i", "j", "k", "l", "m",
     "n", "o", "p", "q", "r", "s", "t", "u", "v", "w", "x", "y", "z" >>

Chars == {Ascii[i] : i \in 1..Len(Ascii)}

Ord == [c \in Chars |-> CHOOSE i \in 1..Len(Ascii) : Ascii[i] = c]

Digits == {c \in Chars : Ord[c] >= Ord["0"] /\ Ord[c] <= Ord["9"]}
UpperCase == {c \in Chars : Ord[c] >= Ord["A"] /\ Ord[c] <= Ord["Z"]}
LowerCase == {c \in Chars : Ord[c] >= Ord["a"] /\ Ord[c] <= Ord["z"]}

\* SQL lower() / the case folding of LIKE: ASCII letters only.
LowerChar(c) == IF c \in UpperCase THEN Ascii[Ord[c] + (Ord["a"] - Ord["A"])] ELSE c
Lower(s) == [i \in 1..Len(s) |-> LowerChar(s[i])]

\* Python str.strip(): leading and trailing white space removed.
RECURSIVE LStrip(_)
LStrip(s) == IF s # <<>> /\ Head(s) = " " THEN LStrip(Tail(s)) ELSE s
RECURSIVE RStrip(_)
RStrip(s) ==
  IF s # <<>> /\ s[Len(s)] = " " THEN RStrip(SubSeq(s, 1, Len(s) - 1)) ELSE s
Strip(s) == RStrip(LStrip(s))

\* Plain substring test.
Contains(s, sub) ==
  \E i \in 0..(Len(s) - Len(sub)) : SubSeq(s, i + 1, i + Len(sub)) = sub

\* SQL LIKE on already case-folded text: % matches any run of characters,
\* _ matches exactly one character.  LikeFrom(s, i, pat, j) matches s from
\* position i against pat from position j.  After a %, only the positions
\* where the next pattern character can match are tried.
CanStart(s, k, pat, j) ==
  \/ j > Len(pat)
  \/ pat[j] = "%"
  \/ k <= Len(s) /\ (pat[j] = "_" \/ pat[j] = s[k])

RECURSIVE LikeFrom(_, _, _, _)
LikeFrom(s, i, pat, j) ==
  IF j > Len(pat) THEN i > Len(s)
  ELSE IF pat[j] = "%"
       THEN \E k \in i..(Len(s) + 1) :
              CanStart(s, k, pat, j + 1) /\ LikeFrom(s, k, pat, j + 1)
       ELSE /\ i <= Len(s)
            /\ (pat[j] = "_" \/ pat[j] = s[i])
            /\ LikeFrom(s, i + 1, pat, j + 1)

Like(s, pat) == LikeFrom(s, 1, pat, 1)

\* column.ilike(pattern) as SQLAlchemy renders it for SQLite:
\* lower(column) LIKE lower(pattern).
ILike(s, pat) == Like(Lower(s), Lower(pat))

\* f"%{search}%"
search_pattern(search) == <<"%">> \o search \o <<"%">>

\* Byte-wise comparison of two texts (BINARY collation).
RECURSIVE TextLess(_, _)
TextLess(a, b) ==
  IF b = <<>> THEN FALSE
  ELSE IF a = <<>> THEN TRUE
  ELSE IF Head(a) = Head(b) THEN TextLess(Tail(a), Tail(b))
  ELSE Ord[Head(a)] < Ord[Head(b)]

\* Decimal text of a natural number.
RECURSIVE NatText(_)
NatText(n) ==
  IF n < 10 THEN <<Ascii[Ord["0"] + n]>>
  ELSE NatText(n \div 10) \o <<Ascii[Ord["0"] + (n % 10)]>>

\* A Float column holds tenths in the model (70 is 7.0).  CAST(x AS VARCHAR)
\* of a REAL prints the integral part, a point and the fraction.
FloatText(x) == NatText(x \div 10) \o <<".">> \o NatText(x % 10)


\* ---------------------------------------------------------------- schema

VARIABLES
  app,      \* which service this process is: "minerals" or "games"
  table,    \* the rows of the service's table, in rowid (insertion) order
  thr,      \* per worker thread: idle, or between its SELECT and its commit
  resp      \* the response of the request that just completed, or NoResp

vars == <<app, table, thr, resp>>

\* An absent text parameter.  Python's None and "" are both false in the
\* handlers' "if search:", "if name:", "if sort:" tests, so one value stands
\* for both.
None == <<>>

\* RarityType / RatingType: the enumeration members' names, which is what an
\* SQLAlchemy Enum column stores.
RarityType ==
  { <<"C","O","M","M","O","N">>, <<"U","N","C","O","M","M","O","N">>,
    <<"R","A","R","E">>,
    <<"E","X","T","R","E","M","E","L","Y","_","R","A","R","E">> }

RatingType ==
  { <<"P","E","G","I","_","3">>, <<"P","E","G","I","_","7">>,
    <<"P","E","G","I","_","1","2">>, <<"P","E","G","I","_","1","6">>,
    <<"P","E","G","I","_","1","8">> }

\* Column names in declaration order.
MineralDB ==
  << "catalog_id", "name", "chemical_formula", "hardness", "weight_carats",
     "rarity", "origin_country", "specimens_count" >>

GamesDB ==
  << "game_id", "name", "genre", "platform", "release_date", "rating",
     "description" >>

Range(f) == {f[i] : i \in DOMAIN f}

Columns == IF app = "minerals" THEN Range(MineralDB) ELSE Range(GamesDB)

\* Columns whose values are numbers (Float, Integer, DATETIME); the others
\* hold text.
NumericColumns == {"hardness", "weight_carats", "specimens_count", "release_date"}

\* The primary key column.
PrimaryKey == IF app = "minerals" THEN "catalog_id" ELSE "game_id"

IdOf(r) == r[PrimaryKey]

\* ------------------------------------------------------------ validation

MinNameLen == 3
MinCountryLen == 2
MinDescriptionLen == 20
MinHardness == 10
MaxHardness == 100

\* The instant the release date is compared with (a year).
Now == 2025

\* re.match(r'^[A-Z]{2}-\d{4}$', id)
validator_catalog_id(id) ==
  /\ Len(id) = 7
  /\ id[1] \in UpperCase /\ id[2] \in UpperCase
  /\ id[3] = "-"
  /\ \A i \in 4..7 : id[i] \in Digits

\* len(name.strip()) < 3 raises
validator_name(name) == Len(Strip(name)) >= MinNameLen

\* the same pattern, on game_id
validator_game_id(game_id) == validator_catalog_id(game_id)

\* a letter and a digit must occur
validator_formula(chemical_formula) ==
  /\ \E i \in 1..Len(chemical_formula) :
        chemical_formula[i] \in UpperCase \cup LowerCase
  /\ \E i \in 1..Len(chemical_formula) : chemical_formula[i] \in Digits

validator_hardness(hardness) == ~(hardness < MinHardness \/ hardness > MaxHardness)

validator_weight(weight_carats) == ~(weight_carats <= 0)

validator_country(origin_country) == Len(Strip(origin_country)) >= MinCountryLen

validator_count(specimens_count) == ~(specimens_count < 0)

validator_description(description) == Len(Strip(description)) >= MinDescriptionLen

validator_genre(genre) == Len(Strip(genre)) >= MinNameLen

validator_platform(platform) == Len(Strip(platform)) >= MinNameLen

validator_release_date(release_date) == ~(release_date > Now)

\* The fields of a mineral body that fail, in declaration order.
MineralErrors(m) ==
  SelectSeq(MineralDB, LAMBDA f :
    \/ f = "catalog_id" /\ ~validator_catalog_id(m.catalog_id)
    \/ f = "name" /\ ~validator_name(m.name)
    \/ f = "chemical_formula" /\ ~validator_formula(m.chemical_formula)
    \/ f = "hardness" /\ ~validator_hardness(m.hardness)
    \/ f = "weight_carats" /\ ~validator_weight(m.weight_carats)
    \/ f = "rarity" /\ m.rarity \notin RarityType
    \/ f = "origin_country" /\ ~validator_country(m.origin_country)
    \/ f = "specimens_count" /\ ~validator_count(m.specimens_count))

GamesErrors(g) ==
  SelectSeq(GamesDB, LAMBDA f :
    \/ f = "game_id" /\ ~validator_game_id(g.game_id)
    \/ f = "name" /\ ~validator_name(g.name)
    \/ f = "genre" /\ ~validator_genre(g.genre)
    \/ f = "platform" /\ ~validator_platform(g.platform)
    \/ f = "release_date" /\ ~validator_release_date(g.release_date)
    \/ f = "rating" /\ g.rating \notin RatingType
    \/ f = "description" /\ ~validator_description(g.description))

\* Parsing a request body into the pydantic model: the failing fields, and
\* the model's field values, which are what each validator returns: its
\* argument, unchanged.
Validate(body) ==
  [ errors |-> IF app = "minerals" THEN MineralErrors(body) ELSE GamesErrors(body),
    data   |-> body ]

\* -------------------------------------------------------- query pipeline

\* The exact-match query parameters of the list endpoint.
FilterColumns ==
  IF app = "minerals"
  THEN {"catalog_id", "name", "rarity", "origin_country"}
  ELSE {"game_id", "name", "genre", "platform", "rating"}

\* The handler's OR over the columns of the minerals table, the numeric
\* columns cast to text.
MineralSearch(r, pattern) ==
  \/ ILike(r.catalog_id, pattern)
  \/ ILike(r.name, pattern)
  \/ ILike(r.chemical_formula, pattern)
  \/ ILike(r.origin_country, pattern)
  \/ ILike(FloatText(r.hardness), pattern)
  \/ ILike(FloatText(r.weight_carats), pattern)
  \/ ILike(NatText(r.specimens_count), pattern)
  \/ ILike(r.rarity, pattern)

\* The handler's OR over the columns of the games table.
GamesSearch(r, pattern) ==
  \/ ILike(r.game_id, pattern)
  \/ ILike(r.name, pattern)
  \/ ILike(r.genre, pattern)
  \/ ILike(r.platform, pattern)
  \/ ILike(r.description, pattern)
  \/ ILike(r.rating, pattern)

\* if search: query.filter(col1.ilike(p) | col2.ilike(p) | ...)
SearchStage(rows, search) ==
  IF search # None
  THEN LET pattern == search_pattern(search)
       IN SelectSeq(rows, LAMBDA r :
            IF app = "minerals" THEN MineralSearch(r, pattern)
            ELSE GamesSearch(r, pattern))
  ELSE rows

\* if catalog_id: query.filter(col == catalog_id), and so on per parameter
\* A variant of FilterStage that keeps a row when any supplied filter equals
\* its field.
FilterStageAny(rows, flt) ==
  SelectSeq(rows, LAMBDA r :
    \/ \A c \in DOMAIN flt : flt[c] = None
    \/ \E c \in DOMAIN flt : flt[c] # None /\ r[c] = flt[c])

FilterStage(rows, flt) ==
  SelectSeq(rows, LAMBDA r :
    \A c \in DOMAIN flt : flt[c] # None => r[c] = flt[c])

\* ORDER BY compares numbers numerically and text byte-wise.
KeyLess(a, b, col) ==
  IF col \in NumericColumns THEN a < b ELSE TextLess(a, b)

\* SQLite's sorter keeps rows with equal keys in scan order: x goes behind
\* every row that does not sort after it.
RECURSIVE InsertRow(_, _, _, _)
InsertRow(x, sorted, col, desc) ==
  IF sorted = <<>> THEN <<x>>
  ELSE LET h == Head(sorted)
           before == IF desc THEN KeyLess(h[col], x[col], col)
                             ELSE KeyLess(x[col], h[col], col)
       IN IF before THEN <<x>> \o sorted
          ELSE <<h>> \o InsertRow(x, Tail(sorted), col, desc)

RECURSIVE OrderBy(_, _, _)
OrderBy(rows, col, desc) ==
  IF rows = <<>> THEN <<>>
  ELSE InsertRow(rows[Len(rows)],
                 OrderBy(SubSeq(rows, 1, Len(rows) - 1), col, desc), col, desc)

\* getattr(MineralDB, name): name is the rest of the sort specifier, a
\* sequence of tokens; it names a column when it is exactly one column name.
HasColumn(name) == Len(name) = 1 /\ name[1] \in Columns

\* The attribute name the sort stage looks up: sort[1:] after a leading "-".
SortName(sort) == IF Head(sort) = "-" THEN Tail(sort) ELSE sort

SortDesc(sort) == Head(sort) = "-"

\* if sort: query.order_by(...)
SortStage(rows, sort) ==
  IF sort # None
  THEN OrderBy(rows, SortName(sort)[1], SortDesc(sort))
  ELSE rows

\* offset = (page - 1) * per_page
\* A variant of Offset that counts pages from zero.
OffsetFromZero(page, per_page) == page * per_page

Offset(page, per_page) == (page - 1) * per_page

\* query.offset(offset).limit(limit).all() on SQLite: a negative OFFSET
\* skips nothing, a negative LIMIT is no limit.
OffsetLimit(rows, offset, limit) ==
  LET skip == IF offset < 0 THEN 0 ELSE offset
      rest == SubSeq(rows, skip + 1, Len(rows))
  IN IF limit < 0 \/ limit > Len(rest) THEN rest ELSE SubSeq(rest, 1, limit)

\* The rows the query selects before OFFSET/LIMIT apply.
Selected(rows, q) ==
  SortStage(FilterStage(SearchStage(rows, q.search), q.flt), q.sort)

\* get_minerals / get_games: the response to a list request q over rows.
\* A sort specifier that names no column raises AttributeError while the
\* query is built; nothing catches it.
get_list(rows, q) ==
  IF q.sort # None /\ ~HasColumn(SortName(q.sort))
  THEN [ status |-> "Unhandled", detail |-> "AttributeError",
         errors |-> <<>>, data |-> <<>>,
         queries |-> 0, offset |-> 0, limit |-> 0 ]
  ELSE [ status |-> "ok", detail |-> "", errors |-> <<>>,
         data |-> OffsetLimit(Selected(rows, q), Offset(q.page, q.per_page),
                              q.per_page),
         queries |-> 1,
         offset |-> Offset(q.page, q.per_page), limit |-> q.per_page ]

\* ---------------------------------------------------------------- inputs

\* Request bodies of the minerals service.  Quartz is the record of the
\* documented scenario; QuartzPeru shares its identifier; PaddedQuartz has
\* white space around its name and the hardness of Quartz; Hardness11 and
\* LowerCaseId do not validate.
Quartz ==
  [ catalog_id |-> <<"A","B","-","1","2","3","4">>, name |-> <<"Q","u","a","r","t","z">>, chemical_formula |-> <<"S","i","O","2">>,
    hardness |-> 70, weight_carats |-> 25, rarity |-> <<"C","O","M","M","O","N">>,
    origin_country |-> <<"B","r","a","z","i","l">>, specimens_count |-> 5 ]

QuartzPeru == [Quartz EXCEPT !.origin_country = <<"P","e","r","u">>, !.specimens_count = 6]

Topaz ==
  [ catalog_id |-> <<"C","D","-","0","0","0","1">>, name |-> <<"T","o","p","a","z">>, chemical_formula |-> <<"A","l","2">>,
    hardness |-> 80, weight_carats |-> 10, rarity |-> <<"R","A","R","E">>,
    origin_country |-> <<"B","r","a","z","i","l">>, specimens_count |-> 1 ]

PaddedQuartz ==
  [ catalog_id |-> <<"E","F","-","0","0","0","2">>, name |-> <<" ","Q","u","a","r","t","z"," ">>, chemical_formula |-> <<"S","i","O","2">>,
    hardness |-> 70, weight_carats |-> 5, rarity |-> <<"C","O","M","M","O","N">>,
    origin_country |-> <<"P","e","r","u">>, specimens_count |-> 0 ]

Hardness11 == [Quartz EXCEPT !.hardness = 110]

LowerCaseId == [Topaz EXCEPT !.catalog_id = <<"a","b","-","1","2","3","4">>]

MineralBodies == {Quartz, QuartzPeru, Topaz, PaddedQuartz, Hardness11, LowerCaseId}

\* Request bodies of the games service.  DoomRemake shares Doom's
\* identifier; Myst has white space around its description; ShortDescription
\* and FutureRelease do not validate.
Doom ==
  [ game_id |-> <<"A","B","-","0","0","0","1">>, name |-> <<"D","o","o","m">>, genre |-> <<"S","h","o","o","t","e","r">>, platform |-> <<"D","O","S">>,
    release_date |-> 1993, rating |-> <<"P","E","G","I","_","1","8">>,
    description |-> <<"A"," ","c","l","a","s","s","i","c"," ","s","h","o","o","t","e","r"," ","g","a","m","e">> ]

DoomRemake == [Doom EXCEPT !.platform = <<"P","S","5">>, !.release_date = 2016]

Myst ==
  [ game_id |-> <<"A","B","-","0","0","0","2">>, name |-> <<"M","y","s","t">>, genre |-> <<"P","u","z","z","l","e">>, platform |-> <<"M","a","c">>,
    release_date |-> 1993, rating |-> <<"P","E","G","I","_","7">>,
    description |-> <<" "," ","A","n"," ","i","s","l","a","n","d"," ","p","u","z","z","l","e"," ","g","a","m","e"," ">> ]

Tetris ==
  [ game_id |-> <<"C","D","-","0","0","0","3">>, name |-> <<"T","e","t","r","i","s">>, genre |-> <<"P","u","z","z","l","e">>, platform |-> <<"D","O","S">>,
    release_date |-> 1984, rating |-> <<"P","E","G","I","_","3">>,
    description |-> <<"F","a","l","l","i","n","g"," ","b","l","o","c","k","s"," ","p","u","z","z","l","e">> ]

ShortDescription == [Doom EXCEPT !.description = <<"T","o","o"," ","s","h","o","r","t">>]

FutureRelease == [Tetris EXCEPT !.release_date = 2030]

GamesBodies == {Doom, DoomRemake, Myst, Tetris, ShortDescription, FutureRelease}

Bodies == IF app = "minerals" THEN MineralBodies ELSE GamesBodies

\* One body per identifier and one that does not validate.
QueryBodies ==
  IF app = "minerals"
  THEN {Quartz, Topaz, PaddedQuartz, Hardness11}
  ELSE {Doom, Myst, Tetris, ShortDescription}

\* Path identifiers of update, delete and QR requests.
PathIds ==
  IF app = "minerals"
  THEN {Quartz.catalog_id, Topaz.catalog_id, PaddedQuartz.catalog_id}
  ELSE {Doom.game_id, Myst.game_id, Tetris.game_id}

\* Export formats requested.
Formats == {"csv", "json", "xlsx", "pdf"}

DefaultPage == 1
DefaultPerPage == 10

\* Bounds of the list requests: the page numbers are 0..MaxPage, the page
\* sizes 0..MaxPerPage and the default.
MaxPage == 2
MaxPerPage == 2

Pages == 0..MaxPage
PerPages == (0..MaxPerPage) \cup {DefaultPerPage}

\* List requests of the minerals service: search, the exact-match
\* parameters catalog_id, name, rarity, origin_country, sort and paging.
MineralListParams ==
  [ search : {None, <<"b","r","a","z","i","l">>, <<"7",".","0">>, <<"u","_","r">>},
    flt : [catalog_id : {None, Quartz.catalog_id},
           name : {None, Quartz.name},
           rarity : {None},
           origin_country : {None, <<"B","r","a","z","i","l">>, <<"b","r","a","z","i","l">>}],
    sort : {None, <<"hardness">>, <<"-", "name">>, <<"foo">>},
    page : Pages, per_page : PerPages ]

\* List requests of the games service: search, the exact-match parameters
\* game_id, name, genre, platform, rating, sort and paging.
GamesListParams ==
  [ search : {None, <<"d","o","o","m">>, <<"1","9","9","3">>},
    flt : [game_id : {None, Doom.game_id},
           name : {None},
           genre : {None, Myst.genre},
           platform : {None},
           rating : {None, Doom.rating}],
    sort : {None, <<"genre">>, <<"-", "release_date">>, <<"foo">>},
    page : Pages, per_page : PerPages ]

ListParams == IF app = "minerals" THEN MineralListParams ELSE GamesListParams

NoFilters == [c \in FilterColumns |-> None]

\* The list requests with default paging that read everything or read one
\* record by its identifier.
ReadParams ==
  {[search |-> None, flt |-> [NoFilters EXCEPT ![PrimaryKey] = id],
    sort |-> None, page |-> DefaultPage, per_page |-> DefaultPerPage] :
     id \in PathIds \cup {None}}

\* ----------------------------------------------------------------- state

\* The worker threads that serve requests.
Threads == {"t1", "t2"}

Idle == [pc |-> "idle"]

NoResp == [op |-> "none"]

NoBody == [none |-> TRUE]

NoQuery == [none |-> TRUE]

\* A response: the request it answers (op, thread, path, body, q), its
\* outcome (status, detail, errors, data) and what the request did with the
\* store (queries: the statements it ran; offset, limit: the values a list
\* request handed to the store).
\*   status "ok"          200
\*          "Validation"  422, errors are the body's failing fields
\*          "Conflict"    400, the identifier already exists
\*          "IdMismatch"  400, path and body identifiers differ
\*          "BadFormat"   400, unsupported export format
\*          "NotFound"    404
\*          "Unhandled"   500, detail names the exception nothing caught
Response(op, t, path, body, q, r) ==
  [op |-> op, thread |-> t, path |-> path, body |-> body, q |-> q] @@ r

Outcome(status, detail, errors, data, queries) ==
  [ status |-> status, detail |-> detail, errors |-> errors, data |-> data,
    queries |-> queries, offset |-> 0, limit |-> 0 ]

\* db.query(T).filter(T.id == id).first()
first(rows, id) == SelectSeq(rows, LAMBDA r : IdOf(r) = id)

StoredIds == {IdOf(table[i]) : i \in 1..Len(table)}

Init ==
  /\ app \in {"minerals", "games"}
  /\ table = <<>>
  /\ thr = [t \in Threads |-> Idle]
  /\ resp = NoResp

\* -------------------------------------------------------------- handlers

\* GET /minerals, GET /games
get_minerals(t, q) ==
  /\ thr[t] = Idle /\ resp = NoResp
  /\ resp' = Response("list", t, None, NoBody, q, get_list(table, q))
  /\ UNCHANGED <<app, table, thr>>

\* A variant of create_mineral that adds the row without the lookup.
create_mineral_unchecked(t, body) ==
  /\ thr[t] = Idle /\ resp = NoResp
  /\ LET v == Validate(body)
     IN IF v.errors # <<>>
        THEN /\ resp' = Response("create", t, None, body, NoQuery,
                          Outcome("Validation", "", v.errors, <<>>, 0))
             /\ thr' = thr
        ELSE /\ thr' = [thr EXCEPT ![t] =
                          [pc |-> "commit", op |-> "create", path |-> None,
                           body |-> body, row |-> v.data]]
             /\ resp' = resp
  /\ UNCHANGED <<app, table>>

\* POST /minerals, POST /games up to db.add: the body is validated before
\* the handler runs; the handler looks the identifier up and raises 400 when
\* it finds it.
create_mineral(t, body) ==
  /\ thr[t] = Idle /\ resp = NoResp
  /\ LET v == Validate(body)
         db_mineral == first(table, IdOf(v.data))
     IN IF v.errors # <<>>
        THEN /\ resp' = Response("create", t, None, body, NoQuery,
                          Outcome("Validation", "", v.errors, <<>>, 0))
             /\ thr' = thr
        ELSE IF db_mineral # <<>>
        THEN /\ resp' = Response("create", t, None, body, NoQuery,
                          Outcome("Conflict", "", <<>>, <<>>, 1))
             /\ thr' = thr
        ELSE /\ thr' = [thr EXCEPT ![t] =
                          [pc |-> "commit", op |-> "create", path |-> None,
                           body |-> body, row |-> v.data]]
             /\ resp' = resp
  /\ UNCHANGED <<app, table>>

\* db.commit() of a create: the INSERT.  The primary key is unique in the
\* table; an INSERT of an identifier that is present raises IntegrityError,
\* which the handler does not catch.
create_commit(t) ==
  /\ thr[t].pc = "commit" /\ thr[t].op = "create" /\ resp = NoResp
  /\ IF IdOf(thr[t].row) \in StoredIds
     THEN /\ resp' = Response("create", t, None, thr[t].body, NoQuery,
                       Outcome("Unhandled", "IntegrityError", <<>>, <<>>, 2))
          /\ table' = table
     ELSE /\ table' = Append(table, thr[t].row)
          /\ resp' = Response("create", t, None, thr[t].body, NoQuery,
                       Outcome("ok", "", <<>>, <<thr[t].body>>, 3))
  /\ thr' = [thr EXCEPT ![t] = Idle]
  /\ UNCHANGED app

\* A variant of update_mineral that looks the row up before it compares the
\* identifiers.
update_mineral_lookup_first(t, catalog_id, body) ==
  /\ thr[t] = Idle /\ resp = NoResp
  /\ LET v == Validate(body)
         db_mineral == first(table, catalog_id)
     IN IF v.errors # <<>>
        THEN /\ resp' = Response("update", t, catalog_id, body, NoQuery,
                          Outcome("Validation", "", v.errors, <<>>, 0))
             /\ thr' = thr
        ELSE IF db_mineral = <<>>
        THEN /\ resp' = Response("update", t, catalog_id, body, NoQuery,
                          Outcome("NotFound", "", <<>>, <<>>, 1))
             /\ thr' = thr
        ELSE IF catalog_id # IdOf(v.data)
        THEN /\ resp' = Response("update", t, catalog_id, body, NoQuery,
                          Outcome("IdMismatch", "", <<>>, <<>>, 1))
             /\ thr' = thr
        ELSE /\ thr' = [thr EXCEPT ![t] =
                          [pc |-> "commit", op |-> "update", path |-> catalog_id,
                           body |-> body, row |-> db_mineral[1]]]
             /\ resp' = resp
  /\ UNCHANGED <<app, table>>

\* PUT /minerals/{id}, PUT /games/{id} up to the setattr loop.
update_mineral(t, catalog_id, body) ==
  /\ thr[t] = Idle /\ resp = NoResp
  /\ LET v == Validate(body)
         db_mineral == first(table, catalog_id)
     IN IF v.errors # <<>>
        THEN /\ resp' = Response("update", t, catalog_id, body, NoQuery,
                          Outcome("Validation", "", v.errors, <<>>, 0))
             /\ thr' = thr
        ELSE IF catalog_id # IdOf(v.data)
        THEN /\ resp' = Response("update", t, catalog_id, body, NoQuery,
                          Outcome("IdMismatch", "", <<>>, <<>>, 0))
             /\ thr' = thr
        ELSE IF db_mineral = <<>>
        THEN /\ resp' = Response("update", t, catalog_id, body, NoQuery,
                          Outcome("NotFound", "", <<>>, <<>>, 1))
             /\ thr' = thr
        ELSE /\ thr' = [thr EXCEPT ![t] =
                          [pc |-> "commit", op |-> "update", path |-> catalog_id,
                           body |-> body, row |-> db_mineral[1]]]
             /\ resp' = resp
  /\ UNCHANGED <<app, table>>

\* The row an UPDATE of the columns that differ between the loaded row and
\* the body leaves behind.
Updated(current, loaded, body) ==
  [c \in DOMAIN current |-> IF body[c] # loaded[c] THEN body[c] ELSE current[c]]

\* db.commit() and db.refresh() of an update.  The UPDATE sets the columns
\* the setattr loop changed, WHERE id = the loaded row's id.  When the row is
\* gone the UPDATE matches nothing (StaleDataError) or, with no column
\* changed, the refresh finds nothing (InvalidRequestError).
update_commit(t) ==
  /\ thr[t].pc = "commit" /\ thr[t].op = "update" /\ resp = NoResp
  /\ IF thr[t].path \in StoredIds
     THEN /\ table' = [i \in 1..Len(table) |->
                         IF IdOf(table[i]) = thr[t].path
                         THEN Updated(table[i], thr[t].row, thr[t].body)
                         ELSE table[i]]
          /\ resp' = Response("update", t, thr[t].path, thr[t].body, NoQuery,
                       Outcome("ok", "", <<>>, <<thr[t].body>>, 3))
     ELSE /\ table' = table
          /\ resp' = Response("update", t, thr[t].path, thr[t].body, NoQuery,
                       Outcome("Unhandled",
                               IF thr[t].body # thr[t].row
                               THEN "StaleDataError" ELSE "InvalidRequestError",
                               <<>>, <<>>, 2))
  /\ thr' = [thr EXCEPT ![t] = Idle]
  /\ UNCHANGED app

\* DELETE /minerals/{id}, DELETE /games/{id} up to db.delete.
delete_mineral(t, catalog_id) ==
  /\ thr[t] = Idle /\ resp = NoResp
  /\ LET db_mineral == first(table, catalog_id)
     IN IF db_mineral = <<>>
        THEN /\ resp' = Response("delete", t, catalog_id, NoBody, NoQuery,
                          Outcome("NotFound", "", <<>>, <<>>, 1))
             /\ thr' = thr
        ELSE /\ thr' = [thr EXCEPT ![t] =
                          [pc |-> "commit", op |-> "delete", path |-> catalog_id,
                           body |-> NoBody, row |-> db_mineral[1]]]
             /\ resp' = resp
  /\ UNCHANGED <<app, table>>

\* A variant of delete_commit whose DELETE has no WHERE clause.
delete_commit_all(t) ==
  /\ thr[t].pc = "commit" /\ thr[t].op = "delete" /\ resp = NoResp
  /\ table' = <<>>
  /\ resp' = Response("delete", t, thr[t].path, NoBody, NoQuery,
                Outcome("ok", "", <<>>, <<>>, 2))
  /\ thr' = [thr EXCEPT ![t] = Idle]
  /\ UNCHANGED app

\* db.commit() of a delete: DELETE WHERE id = the loaded row's id.  A DELETE
\* that matches no row only warns.
delete_commit(t) ==
  /\ thr[t].pc = "commit" /\ thr[t].op = "delete" /\ resp = NoResp
  /\ table' = SelectSeq(table, LAMBDA r : IdOf(r) # thr[t].path)
  /\ resp' = Response("delete", t, thr[t].path, NoBody, NoQuery,
                Outcome("ok", "", <<>>, <<>>, 2))
  /\ thr' = [thr EXCEPT ![t] = Idle]
  /\ UNCHANGED app

\* GET /minerals/{id}/qr: the image encodes the fields of the row.
get_mineral_qr(t, catalog_id) ==
  /\ app = "minerals"
  /\ thr[t] = Idle /\ resp = NoResp
  /\ LET db_mineral == first(table, catalog_id)
     IN resp' = Response("qr", t, catalog_id, NoBody, NoQuery,
                  IF db_mineral = <<>>
                  THEN Outcome("NotFound", "", <<>>, <<>>, 1)
                  ELSE Outcome("ok", "", <<>>, db_mineral, 1))
  /\ UNCHANGED <<app, table, thr>>

\* GET /games/export: every row, in one of three formats.
export_games(t, format) ==
  /\ app = "games"
  /\ thr[t] = Idle /\ resp = NoResp
  /\ resp' = Response("export", t, None, NoBody, NoQuery,
                IF format \in {"csv", "json", "xlsx"}
                THEN Outcome("ok", format, <<>>, table, 1)
                ELSE Outcome("BadFormat", format, <<>>, <<>>, 1))
  /\ UNCHANGED <<app, table, thr>>

\* The response leaves the server.
Deliver ==
  /\ resp # NoResp
  /\ resp' = NoResp
  /\ UNCHANGED <<app, table, thr>>

\* The services under concurrent requests: every handler, the list requests
\* being reads of everything or of one identifier.
Next ==
  \/ \E t \in Threads, q \in ReadParams : get_minerals(t, q)
  \/ \E t \in Threads, body \in Bodies : create_mineral(t, body)
  \/ \E t \in Threads : create_commit(t)
  \/ \E t \in Threads, id \in PathIds, body \in Bodies : update_mineral(t, id, body)
  \/ \E t \in Threads : update_commit(t)
  \/ \E t \in Threads, id \in PathIds : delete_mineral(t, id)
  \/ \E t \in Threads : delete_commit(t)
  \/ \E t \in Threads, id \in PathIds : get_mineral_qr(t, id)
  \/ \E t \in Threads, format \in Formats : export_games(t, format)
  \/ Deliver

Spec == Init /\ [][Next]_vars

\* A service under one request at a time: the table is filled by create
\* requests and read by list requests drawn from the whole parameter space.
NextQuery ==
  \/ resp = NoResp /\ \E q \in ListParams : get_minerals("t1", q)
  \/ \E body \in QueryBodies : create_mineral("t1", body)
  \/ create_commit("t1")
  \/ Deliver

SpecQuery == Init /\ [][NextQuery]_vars

\* ------------------------------------------------------------ properties

Rows(seq) == {seq[i] : i \in 1..Len(seq)}

\* A request of kind op completes in this step.
Completed(op) == resp = NoResp /\ resp' # NoResp /\ resp'.op = op

\* A request of kind op completes in the step in which its handler starts.
Immediate(op) == Completed(op) /\ thr[resp'.thread] = Idle

\* Thread t starts a handler of kind op, which goes on to its commit.
Passed(t, op) == thr[t] = Idle /\ thr'[t] # Idle /\ thr'[t].op = op

\* The list request that reads one record by its identifier.
ReadById(id) ==
  [ search |-> None, flt |-> [NoFilters EXCEPT ![PrimaryKey] = id],
    sort |-> None, page |-> DefaultPage, per_page |-> DefaultPerPage ]

NoDuplicateIds ==
  \A i, j \in 1..Len(table) : IdOf(table[i]) = IdOf(table[j]) => i = j

\* C1: once an identifier is in the table (a create of it succeeded and no
\* delete followed), no create of it goes past the handler's lookup: a
\* create that starts then ends with Conflict (its body failing validation
\* ends with Validation before the lookup), a create succeeds only for an
\* identifier that is absent, a failed create and every list, export and QR
\* request leave the table as it is, and the table never holds an identifier
\* twice.
CreateUniqueness ==
  /\ []NoDuplicateIds
  /\ [][/\ \A t \in Threads :
             Passed(t, "create") => IdOf(thr'[t].row) \notin StoredIds
        /\ (Immediate("create") /\ IdOf(resp'.body) \in StoredIds)
             => /\ resp'.status \in {"Conflict", "Validation"}
                /\ resp'.status = "Conflict" <=> Validate(resp'.body).errors = <<>>
        /\ (Completed("create") /\ resp'.status = "ok")
             => /\ IdOf(resp'.body) \notin StoredIds
                /\ table' = Append(table, resp'.body)
        /\ (Completed("create") /\ resp'.status # "ok") => table' = table
        /\ (Completed("list") \/ Completed("qr") \/ Completed("export"))
             => table' = table
       ]_vars

\* C1 witness: a create of a stored identifier was answered with Conflict.
CreateConflictReached ==
  /\ resp.op = "create" /\ resp.status = "Conflict"
  /\ IdOf(resp.body) \in StoredIds

\* C2: a create never ends in an unhandled failure: when its INSERT meets an
\* identifier that another create committed after the lookup, it ends with
\* Conflict.
ConcurrentCreateConflict ==
  resp.op = "create" => resp.status \in {"ok", "Conflict", "Validation"}

\* C7 as stated: every update whose path identifier differs from the body's
\* ends with the identifier mismatch, without a statement run.
UpdateMismatchAlwaysIdentifier ==
  (resp.op = "update" /\ resp.path # IdOf(resp.body))
    => resp.status = "IdMismatch" /\ resp.queries = 0

\* C7 amended: an update whose path identifier differs from the body's never
\* reaches the store: it completes in its first step with no statement run
\* and the table unchanged, whether or not either identifier is stored; it
\* ends with the identifier mismatch when the body passes validation and
\* with the body's Validation error otherwise.
UpdateMismatchBeforeStore ==
  [][/\ \A t \in Threads :
          Passed(t, "update") => thr'[t].path = IdOf(thr'[t].body)
     /\ (Completed("update") /\ resp'.path # IdOf(resp'.body))
          => /\ Immediate("update")
             /\ resp'.queries = 0
             /\ table' = table /\ thr' = thr
             /\ resp'.status =
                  IF Validate(resp'.body).errors = <<>>
                  THEN "IdMismatch" ELSE "Validation"
             /\ resp'.status = "Validation" => resp'.errors # <<>>
    ]_vars

\* C7 witness: an update of a stored record with a body carrying another
\* stored identifier was answered with the identifier mismatch.
UpdateMismatchReached ==
  /\ resp.op = "update" /\ resp.status = "IdMismatch"
  /\ resp.path \in StoredIds /\ IdOf(resp.body) \in StoredIds
  /\ resp.path # IdOf(resp.body)

\* The normalized record of the validation contract: text trimmed, numbers
\* unchanged.
Normalize(r) ==
  [c \in DOMAIN r |-> IF c \in NumericColumns THEN r[c] ELSE Strip(r[c])]

\* C8: once create(r) has succeeded, reading by r's identifier returns
\* exactly one record, the normalized r.
CreateReadRoundTrip ==
  [][(Completed("create") /\ resp'.status = "ok")
       => get_list(table', ReadById(IdOf(resp'.body))).data
            = <<Normalize(resp'.body)>>
    ]_vars

\* C10: a delete goes past its lookup only for a stored identifier, and one
\* that starts while the identifier is absent ends with NotFound and leaves
\* the table as it is; the commit of a delete removes the rows of that
\* identifier and no other row, and changes none; while an identifier is
\* absent, list, export and QR requests return stored rows only, QR, update
\* and delete requests for it that reach the lookup end with NotFound, and
\* only a successful create of it brings it back.
DeleteIsPermanent ==
  [][/\ \A t \in Threads : Passed(t, "delete") => thr'[t].path \in StoredIds
     /\ Immediate("delete")
          => /\ resp'.status = "NotFound"
             /\ resp'.path \notin StoredIds
             /\ table' = table
     /\ (Completed("delete") /\ resp'.status = "ok")
          => /\ ~Immediate("delete")
             /\ table' = SelectSeq(table, LAMBDA r : IdOf(r) # resp'.path)
     /\ (Completed("list") \/ Completed("export") \/ Completed("qr"))
          => /\ Rows(resp'.data) \subseteq Rows(table)
             /\ table' = table
     /\ (Completed("qr") /\ resp'.path \notin StoredIds)
          => resp'.status = "NotFound"
     /\ \A t \in Threads :
          Passed(t, "update") => thr'[t].path \in StoredIds
     /\ (Immediate("update") /\ resp'.path \notin StoredIds
           /\ resp'.status \notin {"Validation", "IdMismatch"})
          => resp'.status = "NotFound" /\ table' = table
     /\ \A id \in PathIds :
          (id \notin StoredIds /\ id \in {IdOf(table'[i]) : i \in 1..Len(table')})
            => /\ Completed("create") /\ resp'.status = "ok"
               /\ IdOf(resp'.body) = id
    ]_vars

\* C10 witness: a delete has removed a record and left another one stored.
DeleteReached ==
  /\ resp.op = "delete" /\ resp.status = "ok"
  /\ resp.path \notin StoredIds
  /\ table # <<>>

\* The pages of request q from page i on, up to the first empty page.
RECURSIVE PagesFrom(_, _)
ThenPagesFrom(data, q, i) ==
  IF data = <<>> THEN <<>> ELSE data \o PagesFrom(q, i + 1)

PagesFrom(q, i) ==
  ThenPagesFrom(get_list(table, [q EXCEPT !.page = i]).data, q, i)

SameSequenceOnce(pages, full) ==
  /\ pages = full
  /\ \A i, j \in 1..Len(pages) : pages[i] = pages[j] => i = j

\* C3: for a list request with per_page >= 1 over the table as it is, the
\* pages 1, 2, ... up to the first empty one, one after the other, are the
\* rows the query selects, in its order, each row once.
PaginationCoverage ==
  (resp.op = "list" /\ resp.status = "ok" /\ resp.q.per_page >= 1)
    => SameSequenceOnce(PagesFrom(resp.q, 1), Selected(table, resp.q))

\* Two rows of the table have the same value in column c.
HasTie(c) ==
  \E i, j \in 1..Len(table) : i # j /\ table[i][c] = table[j][c]

\* C3 witness: a sorted list request with one row per page was answered over
\* three rows, two of which have the same sort key.
PaginationWithTiesReached ==
  /\ resp.op = "list" /\ resp.status = "ok"
  /\ resp.q.per_page = 1 /\ resp.q.sort # None
  /\ Len(Selected(table, resp.q)) = 3
  /\ HasTie(SortName(resp.q.sort)[1])

\* The narrowing stages request q supplies: the search and each filter.
Stages(q) ==
  (IF q.search # None THEN {"search"} ELSE {})
    \cup {c \in DOMAIN q.flt : q.flt[c] # None}

\* Request q with one narrowing stage taken out.
Without(q, stage) ==
  IF stage = "search" THEN [q EXCEPT !.search = None]
  ELSE [q EXCEPT !.flt[stage] = None]

\* C4 as stated: the records a list request with page >= 1 and per_page >= 1
\* returns are among those the same request with one fewer stage returns,
\* sort, page and per_page kept.
NarrowingPerPage ==
  (resp.op = "list" /\ resp.status = "ok"
     /\ resp.q.page >= 1 /\ resp.q.per_page >= 1)
    => \A stage \in Stages(resp.q) :
         Rows(resp.data) \subseteq Rows(get_list(table, Without(resp.q, stage)).data)

\* The rows request q selects and those it selects with a stage taken out.
Narrows(data, selected, wider) ==
  /\ Rows(selected) \subseteq Rows(wider)
  /\ Rows(data) \subseteq Rows(wider)

\* C4 amended: the rows a list request selects before offset and limit, and
\* so the records it returns, are among the rows the request with one fewer
\* stage selects before offset and limit.
NarrowingUnpaginated ==
  (resp.op = "list" /\ resp.status = "ok")
    => \A stage \in Stages(resp.q) :
         Narrows(resp.data, Selected(table, resp.q),
                 Selected(table, Without(resp.q, stage)))

\* C4 witness: a request with a stage returned records, and fewer rows are
\* selected with the stage than without it.
NarrowingReached ==
  /\ resp.op = "list" /\ resp.status = "ok" /\ resp.data # <<>>
  /\ \E stage \in Stages(resp.q) :
       Len(Selected(table, resp.q))
         < Len(Selected(table, Without(resp.q, stage)))

\* C5: a list request whose sort specifier names no column ends with a
\* Validation error on "sort".
UnknownSortIsValidationError ==
  (resp.op = "list" /\ resp.q.sort # None /\ ~HasColumn(SortName(resp.q.sort)))
    => resp.status = "Validation" /\ resp.errors = <<"sort">>

\* C6: a list request hands the store an offset >= 0 and a limit >= 1, and
\* one with page < 1 or per_page < 1 is rejected before it reaches the store.
PagingGuarded ==
  resp.op = "list"
    => /\ resp.queries > 0 => resp.offset >= 0 /\ resp.limit >= 1
       /\ (resp.q.page < 1 \/ resp.q.per_page < 1)
            => resp.status = "Validation" /\ resp.queries = 0

\* The stored text of a release date: the year and the first of January.
DateText(y) == NatText(y) \o <<"-", "0", "1", "-", "0", "1">>

\* Every field of a row as text.
FieldText(r, c) ==
  CASE c = "release_date" -> DateText(r[c])
    [] c \in {"hardness", "weight_carats"} -> FloatText(r[c])
    [] c = "specimens_count" -> NatText(r[c])
    [] OTHER -> r[c]

\* A row passes the search and the filters of q as the pipeline is
\* described: some field's text contains the search string, letter case
\* aside, and every supplied filter equals its field.
Matches(r, q) ==
  /\ q.search # None
       => \E c \in Columns : Contains(Lower(FieldText(r, c)), Lower(q.search))
  /\ \A c \in DOMAIN q.flt : q.flt[c] # None => r[c] = q.flt[c]

\* C9: the records of an un-paginated list response are the stored rows that
\* pass the search (any field, as text, contains it) and every filter.
SearchAnyFieldAndFilters ==
  (resp.op = "list" /\ resp.status = "ok"
     /\ resp.q.page = DefaultPage /\ resp.q.per_page = DefaultPerPage)
    => Rows(resp.data) = {r \in Rows(table) : Matches(r, resp.q)}

=============================================================================
